---- MODULE Spec2Model ----
(***************************************************************************)
(* Model of utils/push_to_hub.py (rl-baselines3-zoo): the command line     *)
(* entry point, generate_model_card / save_model_card, and the             *)
(* package_to_hub pipeline.                                                *)
(*                                                                         *)
(* Python strings are sequences of one-character strings, so that          *)
(* str.replace and str.split act on characters as they do in the code.     *)
(***************************************************************************)
EXTENDS Integers, Sequences, FiniteSets, TLC

VARIABLES
    pc,            \* position in the script / in package_to_hub
    argv,          \* the parsed command line, as given (never changed)
    args,          \* the argparse namespace, which the script mutates
    is_atari,      \* ExperimentManager.is_atari(env_id)
    eval_env,      \* the evaluation environment built by create_test_env
    deterministic, \* `deterministic` of the entry point
    model_name,    \* `model_name` of the entry point
    repo_id,       \* `repo_id` of the entry point
    call,          \* the arguments of the call of package_to_hub
    card_in,       \* the arguments of generate_model_card
    card,          \* the (model_card, metadata) generate_model_card returned
    readme,        \* README.md of the local clone
    pkg,           \* the parameters of package_to_hub
    names,         \* organization, repo_name = repo_id.split("/")
    remote,        \* the repository on the hub
    cloned,        \* whether the local clone exists
    vec,           \* the VecNormalize wrapper of eval_env, if any
    vec_pkl,       \* the statistics saved in vec_normalize.pkl
    written,       \* the files this run wrote into the local clone
    cwd,           \* the working directory: what the process may do in it, and its
                   \* entries named test.mp4 or *.meta.json
    cleanup,       \* what the cleanup after the replay found and deleted
    rewards,       \* mean_reward, std_reward = _evaluate_agent(...)
    trace,         \* the stages of package_to_hub completed so far, in order
    error          \* the stage that raised and why, once one has

mainVars == <<argv, args, is_atari, eval_env, deterministic, model_name, repo_id, call>>
cardVars == <<card_in, card, readme>>
pkgVars == <<pkg, names, remote, cloned, vec, vec_pkl, written, cwd, cleanup, rewards, trace, error>>
vars == <<pc, mainVars, cardVars, pkgVars>>

----------------------------------------------------------------------------
(* Bounds *)

MaxEnvs == 3     \* --n-envs ranges over 1..MaxEnvs
MaxVal == 2      \* the values of a dict range over 1..MaxVal
MaxReward == 1   \* mean_reward ranges over -MaxReward..MaxReward
MaxStd == 1      \* std_reward ranges over 0..MaxStd
MaxStats == 1    \* the statistics of a VecNormalize wrapper start in 0..MaxStats

----------------------------------------------------------------------------
(* Strings *)

None == <<"<None>">>        \* Python's None where a string may stand
Unset == <<"<unset>">>      \* a local not yet assigned

s_ppo == <<"p", "p", "o">>
s_a2c == <<"a", "2", "c">>
s_qrdqn == <<"q", "r", "d", "q", "n">>
s_dqn == <<"d", "q", "n">>
s_ddpg == <<"d", "d", "p", "g">>
s_sac == <<"s", "a", "c">>
s_her == <<"h", "e", "r">>
s_td3 == <<"t", "d", "3">>
s_tqc == <<"t", "q", "c">>

s_CartPole == <<"C", "a", "r", "t", "P", "o", "l", "e", "-", "v", "1">>
s_AlePong == <<"A", "L", "E", "/", "P", "o", "n", "g">>
s_acme == <<"a", "c", "m", "e">>
s_sb3 == <<"s", "b", "3">>
s_o_g == <<"o", "/", "g">>

\* str.replace(old, new) for one-character old and new
StrReplace(s, old, new) ==
    [i \in 1..Len(s) |-> IF s[i] = old THEN new ELSE s[i]]

\* the number of occurrences of character c in s
RECURSIVE Count(_, _)
Count(s, c) ==
    IF s = <<>> THEN 0
    ELSE (IF Head(s) = c THEN 1 ELSE 0) + Count(Tail(s), c)

\* str.split(sep) for a one-character sep: the sequence of the parts
RECURSIVE StrSplit(_, _)
StrSplit(s, sep) ==
    IF \A i \in 1..Len(s) : s[i] # sep THEN <<s>>
    ELSE LET k == CHOOSE i \in 1..Len(s) :
                      s[i] = sep /\ \A j \in 1..(i - 1) : s[j] # sep
         IN <<SubSeq(s, 1, k - 1)>> \o StrSplit(SubSeq(s, k + 1, Len(s)), sep)

----------------------------------------------------------------------------
(* The command line entry point (if __name__ == "__main__") *)

\* the keys of ALGOS the model draws --algo from: the off-policy ones and two others
Algos == {s_ppo, s_a2c, s_qrdqn, s_dqn, s_ddpg, s_sac, s_her, s_td3, s_tqc}

off_policy_algos == {s_qrdqn, s_dqn, s_ddpg, s_sac, s_her, s_td3, s_tqc}

EnvIds == {s_CartPole, s_AlePong}
Organizations == {s_acme, s_sb3, s_o_g}
RepoNames == {None, <<>>, <<"m">>, <<"a", "/", "b">>, <<"/", "x", "/">>}

\* args = parser.parse_args()
ParsedArgs ==
    [algo : Algos, env : EnvIds, n_envs : 1..MaxEnvs,
     stochastic : BOOLEAN, deterministic : BOOLEAN, no_render : BOOLEAN,
     organization : Organizations, repo_name : RepoNames]

\* if algo in off_policy_algos: args.n_envs = 1
NEnvsWrong(algo, n_envs) == n_envs
NEnvs(algo, n_envs) == IF algo \in off_policy_algos THEN 1 ELSE n_envs

\* stochastic = args.stochastic or is_atari and not args.deterministic
StochasticWrong(a, atari) == (a.stochastic \/ atari) /\ ~a.deterministic
Stochastic(a, atari) == a.stochastic \/ (atari /\ ~a.deterministic)

\* model_name = f"{algo}-{env_id}"
ModelName(algo, env_id) == algo \o <<"-">> \o env_id

\* repo_id = f"{args.organization}/{args.repo_name.replace('/', '-')}"
RepoIdWrong(organization, repo_name) == organization \o <<"/">> \o repo_name
RepoId(organization, repo_name) ==
    organization \o <<"/">> \o StrReplace(repo_name, "/", "-")

\* the variables of the model card and of package_to_hub, before either runs
CardIdle == card_in = Unset /\ card = Unset /\ readme = Unset
PkgIdle ==
    /\ pkg = Unset /\ names = Unset /\ remote = Unset /\ cloned = FALSE
    /\ vec = Unset /\ vec_pkl = <<>> /\ written = {} /\ cwd = {}
    /\ cleanup = Unset /\ rewards = Unset /\ trace = <<>> /\ error = Unset

MainInit ==
    /\ argv \in ParsedArgs
    /\ args = argv
    /\ pc = "off_policy"
    /\ is_atari = Unset
    /\ eval_env = Unset
    /\ deterministic = Unset
    /\ model_name = Unset
    /\ repo_id = Unset
    /\ call = Unset
    /\ CardIdle
    /\ PkgIdle

\* lines 320-324
ForceSingleEnv ==
    /\ pc = "off_policy"
    /\ args' = [args EXCEPT !.n_envs = NEnvs(args.algo, args.n_envs)]
    /\ pc' = "is_atari"
    /\ UNCHANGED <<argv, is_atari, eval_env, deterministic, model_name, repo_id, call>>
    /\ UNCHANGED <<cardVars, pkgVars>>

\* line 333: the answer of ExperimentManager.is_atari is an input
IsAtari ==
    /\ pc = "is_atari"
    /\ is_atari' \in BOOLEAN
    /\ pc' = "create_test_env"
    /\ UNCHANGED <<argv, args, eval_env, deterministic, model_name, repo_id, call>>
    /\ UNCHANGED <<cardVars, pkgVars>>

\* lines 350-359
CreateTestEnv ==
    /\ pc = "create_test_env"
    /\ eval_env' = [env_id |-> args.env, n_envs |-> args.n_envs,
                    should_render |-> ~args.no_render]
    /\ pc' = "determinism"
    /\ UNCHANGED <<argv, args, is_atari, deterministic, model_name, repo_id, call>>
    /\ UNCHANGED <<cardVars, pkgVars>>

\* lines 371-373
ResolveDeterminism ==
    /\ pc = "determinism"
    /\ deterministic' = ~Stochastic(args, is_atari)
    /\ pc' = "model_name"
    /\ UNCHANGED <<argv, args, is_atari, eval_env, model_name, repo_id, call>>
    /\ UNCHANGED <<cardVars, pkgVars>>

\* lines 375-379
DefaultRepoName ==
    /\ pc = "model_name"
    /\ model_name' = ModelName(args.algo, args.env)
    /\ args' = IF args.repo_name = None
               THEN [args EXCEPT !.repo_name = ModelName(args.algo, args.env)]
               ELSE args
    /\ pc' = "repo_id"
    /\ UNCHANGED <<argv, is_atari, eval_env, deterministic, repo_id, call>>
    /\ UNCHANGED <<cardVars, pkgVars>>

\* line 381
BuildRepoId ==
    /\ pc = "repo_id"
    /\ repo_id' = RepoId(args.organization, args.repo_name)
    /\ pc' = "package_to_hub"
    /\ UNCHANGED <<argv, args, is_atari, eval_env, deterministic, model_name, call>>
    /\ UNCHANGED <<cardVars, pkgVars>>

\* lines 384-402
CallPackageToHub ==
    /\ pc = "package_to_hub"
    /\ call' = [model_name |-> model_name, algo_name |-> args.algo,
                env_id |-> args.env, eval_env |-> eval_env,
                repo_id |-> repo_id, is_deterministic |-> deterministic,
                generate_video |-> ~args.no_render]
    /\ pc' = "called"
    /\ UNCHANGED <<argv, args, is_atari, eval_env, deterministic, model_name, repo_id>>
    /\ UNCHANGED <<cardVars, pkgVars>>

MainNext ==
    \/ ForceSingleEnv
    \/ IsAtari
    \/ CreateTestEnv
    \/ ResolveDeterminism
    \/ DefaultRepoName
    \/ BuildRepoId
    \/ CallPackageToHub

SpecMain == MainInit /\ [][MainNext]_vars

----------------------------------------------------------------------------
(* Claims about the entry point, checked under SpecMain *)

\* the example of the specification: acme/ppo-CartPole-v1
s_acme_ppo_CartPole ==
    <<"a", "c", "m", "e", "/", "p", "p", "o", "-",
      "C", "a", "r", "t", "P", "o", "l", "e", "-", "v", "1">>

\* C1: the is_deterministic value passed to package_to_hub is FALSE when
\* --stochastic is set (also when --deterministic is set too), FALSE when the
\* environment is atari-like and --deterministic is not set, and TRUE in every
\* other case.
C1_DeterminismResolution ==
    pc = "called" =>
        /\ argv.stochastic => call.is_deterministic = FALSE
        /\ (~argv.stochastic /\ is_atari /\ ~argv.deterministic)
               => call.is_deterministic = FALSE
        /\ (~argv.stochastic /\ ~is_atari) => call.is_deterministic = TRUE
        /\ (~argv.stochastic /\ argv.deterministic) => call.is_deterministic = TRUE

C1_Witness ==
    /\ pc = "called"
    /\ argv.stochastic /\ argv.deterministic /\ ~is_atari
    /\ call.is_deterministic = FALSE

\* C2: the repository id passed to package_to_hub is the organization, unchanged,
\* then "/", then the repository name (the given one, or <algo>-<env_id> when none
\* is given) with every "/" replaced by "-" and every other character kept.
C2_RepoId ==
    pc = "called" =>
        LET given == IF argv.repo_name = None
                     THEN argv.algo \o <<"-">> \o argv.env
                     ELSE argv.repo_name
            org == argv.organization
            id == call.repo_id
            rest == SubSeq(id, Len(org) + 2, Len(id))
        IN /\ Len(id) = Len(org) + 1 + Len(given)
           /\ SubSeq(id, 1, Len(org)) = org
           /\ id[Len(org) + 1] = "/"
           /\ \A i \in 1..Len(given) :
                  rest[i] = (IF given[i] = "/" THEN "-" ELSE given[i])
           /\ Count(rest, "/") = 0
           /\ (argv.algo = s_ppo /\ argv.env = s_CartPole /\ org = s_acme
                   /\ argv.repo_name = None) => id = s_acme_ppo_CartPole

C2_Witness ==
    /\ pc = "called"
    /\ argv.repo_name = None /\ argv.env = s_AlePong /\ argv.algo = s_ppo
    /\ argv.organization = s_acme
    /\ call.repo_id = <<"a", "c", "m", "e", "/", "p", "p", "o", "-",
                        "A", "L", "E", "-", "P", "o", "n", "g">>

\* C3: the evaluation environment is built with 1 environment when the algorithm
\* is one of qrdqn, dqn, ddpg, sac, her, td3, tqc, whatever --n-envs asked for, and
\* with the requested number otherwise.
C3_OffPolicySingleEnv ==
    pc \in {"determinism", "model_name", "repo_id", "package_to_hub", "called"} =>
        /\ argv.algo \in {s_qrdqn, s_dqn, s_ddpg, s_sac, s_her, s_td3, s_tqc}
               => eval_env.n_envs = 1
        /\ argv.algo \notin {s_qrdqn, s_dqn, s_ddpg, s_sac, s_her, s_td3, s_tqc}
               => eval_env.n_envs = argv.n_envs
        /\ pc = "called" => call.eval_env = eval_env

C3_Witness ==
    /\ pc = "called"
    /\ argv.algo = s_sac /\ argv.n_envs = MaxEnvs
    /\ call.eval_env.n_envs = 1

----------------------------------------------------------------------------
(* generate_model_card and save_model_card *)

(* A text is a sequence of pieces: the template's literal text, each piece   *)
(* one string, and the characters of the values substituted into it.         *)

s_PPO == <<"P", "P", "O">>
s_SAC == <<"S", "A", "C">>

\* the three backquotes that fence a code block of the template stand as one
\* piece (a TLA+ string cannot hold a backquote)
fence == "<fence>"

h_title == "# **"
h_usage == "## Usage (with SB3 RL Zoo)"
h_training == "## Training (with the RL Zoo)"
h_hyperparameters == "## Hyperparameters"
h_env_arguments == "# Environment Arguments"

\* a dict is a function from its keys to its values; the keys the model uses,
\* in the order pformat sorts them
DictKeys == <<"gamma", "n_envs">>
Dicts == UNION {[K -> 1..MaxVal] : K \in SUBSET {DictKeys[i] : i \in 1..Len(DictKeys)}}
EmptyDict == [k \in {} |-> 0]

\* len(d)
DictLen(d) == Cardinality(DOMAIN d)

\* repr of a small non-negative integer
IntRepr(v) == <<"0", "1", "2", "3", "4", "5", "6", "7", "8", "9">>[v + 1]

\* pprint.pformat of a dict: {'k': v, ...}, keys sorted
RECURSIVE PformatItems(_, _, _)
PformatItems(d, i, first) ==
    IF i > Len(DictKeys) THEN <<>>
    ELSE IF DictKeys[i] \in DOMAIN d
         THEN (IF first THEN <<>> ELSE <<", ">>)
                  \o <<"'", DictKeys[i], "': ", IntRepr(d[DictKeys[i]])>>
                  \o PformatItems(d, i + 1, FALSE)
         ELSE PformatItems(d, i + 1, first)

Pformat(d) == <<"{">> \o PformatItems(d, 1, TRUE) \o <<"}">>

\* huggingface_sb3's generate_metadata(model_name, env_id, mean_reward, std_reward):
\* library code, known here by the arguments generate_model_card hands it
GenerateMetadata(algo_class_name, env_id, mean_reward, std_reward) ==
    [model_name |-> algo_class_name, env_id |-> env_id,
     mean_reward |-> mean_reward, std_reward |-> std_reward]

\* lines 68-77
CardTitle(algo_class_name, env_id) ==
    <<"\n", h_title>> \o algo_class_name \o <<"** Agent playing **">> \o env_id
    \o <<"**\nThis is a trained model of a **">> \o algo_class_name
    \o <<"** agent playing **">> \o env_id
    \o <<"**\nusing the [stable-baselines3 library](https://github.com/DLR-RM/stable-baselines3)\n",
         "and the [RL Zoo](https://github.com/DLR-RM/rl-baselines3-zoo).\n\n",
         "The RL Zoo is a training framework for Stable Baselines3\n",
         "reinforcement learning agents,\n",
         "with hyperparameter optimization and pre-trained agents included.\n">>

\* the command lines of lines 88-89 and 94-96
CardCommand(script, algo_name, env_id, tail) ==
    <<"python ", script, " --algo ">> \o algo_name \o <<" --env ">> \o env_id \o tail

\* lines 79-103
CardBody(algo_name, organization, env_id, hyperparams) ==
    <<"\n", h_usage, "\n\n",
      "RL Zoo: https://github.com/DLR-RM/rl-baselines3-zoo<br/>\n",
      "SB3: https://github.com/DLR-RM/stable-baselines3<br/>\n",
      "SB3 Contrib: https://github.com/Stable-Baselines-Team/stable-baselines3-contrib\n\n",
      fence, "\n# Download model and save it into the logs/ folder\n">>
    \o CardCommand("-m utils.load_from_hub", algo_name, env_id,
                   <<" -orga ">> \o organization \o <<" -f logs/\n">>)
    \o CardCommand("enjoy.py", algo_name, env_id, <<"  -f logs/\n">>)
    \o <<fence, "\n\n", h_training, "\n", fence, "\n">>
    \o CardCommand("train.py", algo_name, env_id, <<" -f logs/\n">>)
    \o <<"# Upload the model and generate video (when possible)\n">>
    \o CardCommand("-m utils.push_to_hub", algo_name, env_id,
                   <<" -f logs/ -orga ">> \o organization \o <<"\n">>)
    \o <<fence, "\n\n", h_hyperparameters, "\n", fence, "python\n">>
    \o Pformat(hyperparams) \o <<"\n", fence, "\n">>

\* lines 104-110
CardEnvArguments(env_kwargs) ==
    <<"\n", h_env_arguments, "\n", fence, "python\n">>
    \o Pformat(env_kwargs) \o <<"\n", fence, "\n">>

generate_model_card_always(algo_name, algo_class_name, organization, env_id, mean_reward, std_reward, hyperparams, env_kwargs) ==
    [model_card |-> CardTitle(algo_class_name, env_id)
                    \o CardBody(algo_name, organization, env_id, hyperparams)
                    \o CardEnvArguments(env_kwargs),
     metadata |-> GenerateMetadata(algo_class_name, env_id, mean_reward, std_reward)]

generate_model_card_swapped(algo_name, algo_class_name, organization, env_id, mean_reward, std_reward, hyperparams, env_kwargs) ==
    [model_card |-> CardTitle(algo_class_name, env_id)
                    \o CardBody(algo_name, organization, env_id, hyperparams)
                    \o (IF DictLen(env_kwargs) > 0
                        THEN CardEnvArguments(env_kwargs) ELSE <<>>),
     metadata |-> GenerateMetadata(algo_class_name, env_id, std_reward, mean_reward)]

\* lines 45-112
generate_model_card(algo_name, algo_class_name, organization, env_id, mean_reward, std_reward, hyperparams, env_kwargs) ==
    [model_card |-> CardTitle(algo_class_name, env_id)
                    \o CardBody(algo_name, organization, env_id, hyperparams)
                    \o (IF DictLen(env_kwargs) > 0
                        THEN CardEnvArguments(env_kwargs) ELSE <<>>),
     metadata |-> GenerateMetadata(algo_class_name, env_id, mean_reward, std_reward)]

\* lines 36-39: README.md is overwritten with the card; it holds no metadata yet
WriteReadme(generated_model_card) ==
    [text |-> generated_model_card, metadata |-> None]

\* line 42: metadata_save puts the metadata block into the README
MetadataSave(r, metadata) == [r EXCEPT !.metadata = metadata]

\* lines 29-42
save_model_card(generated_model_card, metadata) ==
    MetadataSave(WriteReadme(generated_model_card), metadata)

MeanRewards == (0 - MaxReward)..MaxReward
StdRewards == 0..MaxStd

CardInputs ==
    [algo_name : {s_ppo, s_sac}, algo_class_name : {s_PPO, s_SAC},
     organization : Organizations, env_id : EnvIds,
     mean_reward : MeanRewards, std_reward : StdRewards,
     hyperparams : Dicts, env_kwargs : Dicts]

MainIdle ==
    /\ argv = Unset /\ args = Unset /\ is_atari = Unset /\ eval_env = Unset
    /\ deterministic = Unset /\ model_name = Unset /\ repo_id = Unset /\ call = Unset

CardInit ==
    /\ pc = "generate_model_card"
    /\ card_in \in CardInputs
    /\ card = Unset
    /\ readme = Unset
    /\ MainIdle
    /\ PkgIdle

CardGenerate ==
    /\ pc = "generate_model_card"
    /\ card' = generate_model_card(card_in.algo_name, card_in.algo_class_name,
                                   card_in.organization, card_in.env_id,
                                   card_in.mean_reward, card_in.std_reward,
                                   card_in.hyperparams, card_in.env_kwargs)
    /\ pc' = "save_model_card"
    /\ UNCHANGED <<card_in, readme, mainVars, pkgVars>>

CardSave ==
    /\ pc = "save_model_card"
    /\ readme' = save_model_card(card.model_card, card.metadata)
    /\ pc' = "card_saved"
    /\ UNCHANGED <<card_in, card, mainVars, pkgVars>>

CardNext == CardGenerate \/ CardSave

SpecCard == CardInit /\ [][CardNext]_vars

\* whether the text holds the piece
HasPiece(text, piece) == \E i \in 1..Len(text) : text[i] = piece

\* C4: the generated card holds an "Environment Arguments" section exactly when the
\* environment-kwargs mapping is not empty; the title, usage, training and
\* hyperparameters sections are there in both cases.
C4_EnvArgumentsSection ==
    pc \in {"save_model_card", "card_saved"} =>
        /\ DictLen(card_in.env_kwargs) > 0 => HasPiece(card.model_card, h_env_arguments)
        /\ DictLen(card_in.env_kwargs) = 0 => ~HasPiece(card.model_card, h_env_arguments)
        /\ card.model_card[2] = h_title
        /\ HasPiece(card.model_card, h_usage)
        /\ HasPiece(card.model_card, h_training)
        /\ HasPiece(card.model_card, h_hyperparameters)
        /\ pc = "card_saved" => readme.text = card.model_card

C4_Witness ==
    /\ pc = "card_saved"
    /\ DictLen(card_in.env_kwargs) = 1
    /\ HasPiece(readme.text, h_env_arguments)
    /\ DictLen(card_in.hyperparams) = 0

----------------------------------------------------------------------------
(* package_to_hub *)

\* the statements of package_to_hub, in the order of the source (lines 174-259)
StagesEvaluateFirst ==
    <<"split", "create_repo", "clone", "git_pull", "lfs_track", "evaluate",
      "save_model", "vec_normalize", "unzip", "copy_args", "copy_config",
      "env_kwargs_yml", "metrics_zip", "video", "cleanup",
      "card", "save_card", "push">>

StagesTrackBeforePull ==
    <<"split", "create_repo", "clone", "lfs_track", "git_pull", "save_model",
      "vec_normalize", "unzip", "copy_args", "copy_config", "env_kwargs_yml",
      "metrics_zip", "evaluate", "video", "cleanup", "card", "save_card", "push">>

Stages ==
    <<"split", "create_repo", "clone", "git_pull", "lfs_track", "save_model",
      "vec_normalize", "unzip", "copy_args", "copy_config", "env_kwargs_yml",
      "metrics_zip", "evaluate", "video", "cleanup", "card", "save_card", "push">>

\* the statements under `if generate_video:` (lines 233-242)
VideoStages == {"video", "cleanup"}

Pos(stage) == CHOOSE i \in 1..Len(Stages) : Stages[i] = stage

\* the first statement from position i on that this run executes
RECURSIVE StageFrom(_, _)
StageFrom(i, generate_video) ==
    IF i > Len(Stages) THEN "done"
    ELSE IF Stages[i] \in VideoStages /\ ~generate_video
         THEN StageFrom(i + 1, generate_video)
         ELSE Stages[i]

\* the statement that follows a statement that returned
After(stage, generate_video) == StageFrom(Pos(stage) + 1, generate_video)

\* where control goes when a statement raises: package_to_hub and its caller
\* hold no try/except, so the exception leaves the script
OnRaiseContinue(stage, generate_video) == After(stage, generate_video)
OnRaise(stage, generate_video) == "failed"

InTrace(stage) == \E i \in 1..Len(trace) : trace[i] = stage

Complete(stage) ==
    /\ pc' = After(stage, pkg.generate_video)
    /\ trace' = Append(trace, stage)
    /\ error' = error

Raise(stage, reason) ==
    /\ pc' = OnRaise(stage, pkg.generate_video)
    /\ trace' = trace
    /\ error' = [stage |-> stage, reason |-> reason]

NoError == [stage |-> "none", reason |-> "none"]

\* api.create_repo(token, repo_id, private=False, exist_ok=...) of the hub client:
\* an existing repository is an error unless exist_ok
CreateRepoResult(r, exist_ok) ==
    IF r.exists /\ ~exist_ok
    THEN [raised |-> TRUE, remote |-> r]
    ELSE [raised |-> FALSE, remote |-> [r EXCEPT !.exists = TRUE]]

\* lines 180-185
CreateRepo(r) == CreateRepoResult(r, TRUE)

\* lines 202-207, after the save: the wrapper at test time
FreezeKeepsNormReward(v) == [v EXCEPT !.training = FALSE]
Freeze(v) == [v EXCEPT !.training = FALSE, !.norm_reward = FALSE]

\* lines 237 and 240: the regular files the recording of the replay may leave in
\* the working directory
TempFiles == {"test.mp4", "a.meta.json", "b.meta.json"}

\* line 240: the working directory is the one the process is in, and glob.glob
\* reads whatever it holds. The entries it may hold before the run that the
\* pattern matches: a metadata file an earlier recording left, and a directory
\* of such a name. The run itself makes no directory there.
StaleFiles == {"b.meta.json"}
Directories == {"d.meta.json"}

\* lines 238-242 reach the working directory through relative names, so what the
\* process may do in that directory decides their outcome: everything, all but
\* listing it (no read permission), or all but reaching its entries (no search
\* permission)
Access == {"all", "no_read", "no_search"}
WorkDirs ==
    [access : Access,
     entries : {f \cup d : f \in SUBSET StaleFiles, d \in SUBSET Directories}]

\* line 238, Path.is_file(): whether a regular file of that name is there; the
\* PermissionError of a directory that cannot be searched is raised, not
\* swallowed
IsFileAlways(name, dir) == [raised |-> "none", value |-> TRUE]
IsFile(name, dir) ==
    IF dir.access = "no_search"
    THEN [raised |-> "io", value |-> FALSE]
    ELSE [raised |-> "none",
          value |-> name \in dir.entries /\ name \notin Directories]

\* line 240, glob.glob("*.meta.json"): the matching names, files and directories;
\* glob swallows the error of a directory it cannot list and gives no name
GlobMetaJson(dir) ==
    IF dir.access = "all"
    THEN {e \in dir.entries : e # "test.mp4"}
    ELSE {}

\* lines 239 and 242, Path.unlink(): the outcomes. In a directory that cannot be
\* searched it raises PermissionError (here "io"). A directory is never
\* deleted: it raises IsADirectoryError, or PermissionError when the working
\* directory refuses deletions, which the system checks first; a file is
\* deleted, or the deletion fails
Unlink(name, dir) ==
    IF dir.access = "no_search"
    THEN {[raised |-> "io", entries |-> dir.entries]}
    ELSE IF name \notin dir.entries
    THEN {[raised |-> "FileNotFoundError", entries |-> dir.entries]}
    ELSE IF name \in Directories
         THEN {[raised |-> "IsADirectoryError", entries |-> dir.entries],
               [raised |-> "io", entries |-> dir.entries]}
         ELSE {[raised |-> "none", entries |-> dir.entries \ {name}],
               [raised |-> "io", entries |-> dir.entries]}

s_acme_m == <<"a", "c", "m", "e", "/", "m">>
s_sb3_a_b == <<"s", "b", "3", "/", "a", "-", "b">>
PkgRepoIds == {s_acme_m, s_sb3_a_b, <<"a", "/", "b", "/", "c">>, <<"m">>}
PkgDicts == {d \in Dicts : \A k \in DOMAIN d : d[k] = 1}

Parameters ==
    [repo_id : PkgRepoIds, generate_video : BOOLEAN, env_kwargs : PkgDicts,
     hyperparams : {EmptyDict}, algo_name : {s_ppo}, algo_class_name : {s_PPO},
     env_id : {s_CartPole}]

Wrappers ==
    {[present |-> FALSE, training |-> FALSE, norm_reward |-> FALSE, stats |-> 0]}
    \cup [present : {TRUE}, training : BOOLEAN, norm_reward : BOOLEAN,
          stats : 0..MaxStats]

Remotes ==
    {[existed |-> FALSE, exists |-> FALSE, commits |-> 0]}
    \cup [existed : {TRUE}, exists : {TRUE}, commits : {0}]

Init ==
    /\ pc = Stages[1]
    /\ pkg \in Parameters
    /\ names = Unset
    /\ remote \in Remotes
    /\ cloned = FALSE
    /\ vec \in Wrappers
    /\ vec_pkl = <<>>
    /\ written = {}
    /\ cwd \in WorkDirs
    /\ cleanup = [ran |-> FALSE, found |-> {}, deleted |-> {}]
    /\ rewards = [mean |-> None, std |-> None]
    /\ trace = <<>>
    /\ error = NoError
    /\ card_in = Unset /\ card = Unset /\ readme = Unset
    /\ MainIdle

\* line 174
Split ==
    /\ pc = "split"
    /\ LET parts == StrSplit(pkg.repo_id, "/")
       IN IF Len(parts) = 2
          THEN /\ names' = [organization |-> parts[1], repo_name |-> parts[2]]
               /\ Complete("split")
          ELSE /\ names' = names
               /\ Raise("split", "ValueError")
    /\ UNCHANGED <<pkg, remote, cloned, vec, vec_pkl, written, cwd, cleanup, rewards>>
    /\ UNCHANGED <<mainVars, cardVars>>

\* lines 178-185
CreateRepoStep ==
    /\ pc = "create_repo"
    /\ \/ LET r == CreateRepo(remote)
          IN IF r.raised
             THEN remote' = remote /\ Raise("create_repo", "exists")
             ELSE remote' = r.remote /\ Complete("create_repo")
       \/ remote' = remote /\ Raise("create_repo", "io")
    /\ UNCHANGED <<pkg, names, cloned, vec, vec_pkl, written, cwd, cleanup, rewards>>
    /\ UNCHANGED <<mainVars, cardVars>>

\* lines 188-189
Clone ==
    /\ pc = "clone"
    /\ \/ cloned' = TRUE /\ Complete("clone")
       \/ cloned' \in BOOLEAN /\ Raise("clone", "io")
    /\ UNCHANGED <<pkg, names, remote, vec, vec_pkl, written, cwd, cleanup, rewards>>
    /\ UNCHANGED <<mainVars, cardVars>>

\* line 190
GitPull ==
    /\ pc = "git_pull"
    /\ \/ Complete("git_pull")
       \/ Raise("git_pull", "io")
    /\ UNCHANGED <<pkg, names, remote, cloned, vec, vec_pkl, written, cwd, cleanup, rewards>>
    /\ UNCHANGED <<mainVars, cardVars>>

\* a statement that writes one file into the local clone, or raises: before
\* the file was created, or after (the file is created, then filled)
WriteFile(stage, file) ==
    /\ pc = stage
    /\ \/ written' = written \cup {file} /\ Complete(stage)
       \/ written' = written /\ Raise(stage, "io")
       \/ written' = written \cup {file} /\ Raise(stage, "io")
    /\ UNCHANGED <<pkg, names, remote, cloned, vec, vec_pkl, cwd, cleanup, rewards>>
    /\ UNCHANGED <<mainVars, cardVars>>

\* line 192
LfsTrack == WriteFile("lfs_track", ".gitattributes")

\* lines 194-195
SaveModel == WriteFile("save_model", "model.zip")

\* lines 197-207
VecNormalize ==
    /\ pc = "vec_normalize"
    /\ IF vec.present
       THEN \/ /\ vec_pkl' = <<vec.stats>>
               /\ written' = written \cup {"vec_normalize.pkl"}
               /\ vec' = Freeze(vec)
               /\ Complete("vec_normalize")
            \/ /\ UNCHANGED <<vec, vec_pkl>>
               /\ written' \in {written, written \cup {"vec_normalize.pkl"}}
               /\ Raise("vec_normalize", "io")
       ELSE /\ UNCHANGED <<vec, vec_pkl, written>>
            /\ Complete("vec_normalize")
    /\ UNCHANGED <<pkg, names, remote, cloned, cwd, cleanup, rewards>>
    /\ UNCHANGED <<mainVars, cardVars>>

\* lines 209-211
Unzip == WriteFile("unzip", "model/")

\* lines 214-217
CopyArgs == WriteFile("copy_args", "args.yml")

\* lines 215-218
CopyConfig == WriteFile("copy_config", "config.yml")

\* lines 219-220
EnvKwargsYml == WriteFile("env_kwargs_yml", "env_kwargs.yml")

\* lines 222-227
MetricsZip == WriteFile("metrics_zip", "train_eval_metrics.zip")

\* lines 229-230: _evaluate_agent runs the episodes, writes its results into the
\* clone and returns the rewards; a wrapper still training updates its statistics
Evaluate ==
    /\ pc = "evaluate"
    /\ \/ /\ rewards' \in [mean : MeanRewards, std : StdRewards]
          /\ written' = written \cup {"results.json"}
          /\ vec' = IF vec.present /\ vec.training
                    THEN [vec EXCEPT !.stats = vec.stats + 1]
                    ELSE vec
          /\ Complete("evaluate")
       \/ /\ UNCHANGED <<rewards, vec>>
          /\ written' \in {written, written \cup {"results.json"}}
          /\ Raise("evaluate", "io")
    /\ UNCHANGED <<pkg, names, remote, cloned, vec_pkl, cwd, cleanup>>
    /\ UNCHANGED <<mainVars, cardVars>>

\* lines 233-234: _generate_replay records a video when it can, and may leave
\* test.mp4 and *.meta.json files in the working directory, also when it raises;
\* no file can be made in a directory that cannot be searched
Video ==
    /\ pc = "video"
    /\ \/ /\ written' \in {written, written \cup {"replay.mp4"}}
          /\ \E left \in (IF cwd.access = "no_search" THEN {{}}
                          ELSE SUBSET TempFiles) :
                 cwd' = [cwd EXCEPT !.entries = @ \cup left]
          /\ Complete("video")
       \/ /\ written' \in {written, written \cup {"replay.mp4"}}
          /\ \E left \in (IF cwd.access = "no_search" THEN {{}}
                          ELSE SUBSET TempFiles) :
                 cwd' = [cwd EXCEPT !.entries = @ \cup left]
          /\ Raise("video", "io")
    /\ UNCHANGED <<pkg, names, remote, cloned, vec, vec_pkl, cleanup, rewards>>
    /\ UNCHANGED <<mainVars, cardVars>>

\* lines 235-242: test.mp4 is deleted when it is a file; glob gives the
\* *.meta.json entries in no specified order, and the first of them is deleted
\* whatever it is. An is_file or an unlink that raises ends the run.
Cleanup ==
    /\ pc = "cleanup"
    /\ LET r0 == IsFile("test.mp4", cwd)
           Ran(entries) == [ran |-> TRUE, found |-> cwd.entries,
                            deleted |-> cwd.entries \ entries]
       IN IF r0.raised # "none"
          THEN /\ cwd' = cwd
               /\ cleanup' = Ran(cwd.entries)
               /\ Raise("cleanup", r0.raised)
          ELSE \E r1 \in (IF r0.value
                          THEN Unlink("test.mp4", cwd)
                          ELSE {[raised |-> "none", entries |-> cwd.entries]}) :
                  LET dir == [cwd EXCEPT !.entries = r1.entries]
                  IN IF r1.raised # "none"
                     THEN /\ cwd' = dir
                          /\ cleanup' = Ran(r1.entries)
                          /\ Raise("cleanup", r1.raised)
                     ELSE IF GlobMetaJson(dir) = {}
                          THEN /\ cwd' = dir
                               /\ cleanup' = Ran(r1.entries)
                               /\ Complete("cleanup")
                          ELSE \E f \in GlobMetaJson(dir) :
                               \E r2 \in Unlink(f, dir) :
                                  /\ cwd' = [cwd EXCEPT !.entries = r2.entries]
                                  /\ cleanup' = Ran(r2.entries)
                                  /\ IF r2.raised # "none"
                                     THEN Raise("cleanup", r2.raised)
                                     ELSE Complete("cleanup")
    /\ UNCHANGED <<pkg, names, remote, cloned, vec, vec_pkl, written, rewards>>
    /\ UNCHANGED <<mainVars, cardVars>>

\* lines 244-254
GenerateCard ==
    /\ pc = "card"
    /\ card' = generate_model_card(pkg.algo_name, pkg.algo_class_name,
                                   names.organization, pkg.env_id,
                                   rewards.mean, rewards.std,
                                   pkg.hyperparams, pkg.env_kwargs)
    /\ Complete("card")
    /\ UNCHANGED <<pkg, names, remote, cloned, vec, vec_pkl, written, cwd, cleanup, rewards>>
    /\ UNCHANGED <<mainVars, card_in, readme>>

\* line 256, save_model_card (lines 36-42): the card is written, then the
\* metadata saved; either step may raise
SaveCard ==
    /\ pc = "save_card"
    /\ \/ /\ readme' = save_model_card(card.model_card, card.metadata)
          /\ written' = written \cup {"README.md"}
          /\ Complete("save_card")
       \/ /\ readme' = readme
          /\ written' \in {written, written \cup {"README.md"}}
          /\ Raise("save_card", "io")
       \/ /\ readme' = WriteReadme(card.model_card)
          /\ written' = written \cup {"README.md"}
          /\ Raise("save_card", "io")
    /\ UNCHANGED <<pkg, names, remote, cloned, vec, vec_pkl, cwd, cleanup, rewards>>
    /\ UNCHANGED <<mainVars, card_in, card>>

\* lines 258-259
Push ==
    /\ pc = "push"
    /\ \/ /\ remote' = [remote EXCEPT !.commits = remote.commits + 1]
          /\ Complete("push")
       \/ /\ remote' = remote
          /\ Raise("push", "io")
    /\ UNCHANGED <<pkg, names, cloned, vec, vec_pkl, written, cwd, cleanup, rewards>>
    /\ UNCHANGED <<mainVars, cardVars>>

Next ==
    \/ Split
    \/ CreateRepoStep
    \/ Clone
    \/ GitPull
    \/ LfsTrack
    \/ SaveModel
    \/ VecNormalize
    \/ Unzip
    \/ CopyArgs
    \/ CopyConfig
    \/ EnvKwargsYml
    \/ MetricsZip
    \/ Evaluate
    \/ Video
    \/ Cleanup
    \/ GenerateCard
    \/ SaveCard
    \/ Push

Spec == Init /\ [][Next]_vars

----------------------------------------------------------------------------
(* Claims about package_to_hub, checked under Spec *)

\* every occurrence of stage b in the trace comes after an occurrence of stage a
Precedes(a, b) ==
    \A j \in 1..Len(trace) :
        trace[j] = b => \E i \in 1..(j - 1) : trace[i] = a

\* C5: the metadata generate_model_card returns, and the metadata save_model_card
\* writes to README.md, carry the mean and std reward the evaluation of this run
\* returned, and nothing changes the two rewards once the evaluation has returned.
C5_MetadataCarriesRewards ==
    /\ [](/\ InTrace("card") =>
                /\ InTrace("evaluate")
                /\ card.metadata.mean_reward = rewards.mean
                /\ card.metadata.std_reward = rewards.std
          /\ InTrace("save_card") =>
                /\ readme.metadata.mean_reward = rewards.mean
                /\ readme.metadata.std_reward = rewards.std)
    /\ [][InTrace("evaluate") => rewards' = rewards]_vars

C5_Witness ==
    /\ pc = "done"
    /\ rewards.mean = 0 - MaxReward /\ rewards.std = MaxStd
    /\ readme.metadata.mean_reward = 0 - MaxReward
    /\ readme.metadata.std_reward = MaxStd

\* C6: the model is saved before the evaluation, the evaluation comes before the
\* model card is generated, the video and its cleanup (when the video is enabled)
\* come after the evaluation and before the card, and the push comes after the
\* card is written and is the last stage of a run that succeeds.
C6_StageOrder ==
    /\ Precedes("save_model", "evaluate")
    /\ Precedes("evaluate", "card")
    /\ Precedes("evaluate", "video")
    /\ Precedes("video", "cleanup")
    /\ pkg.generate_video => Precedes("cleanup", "card")
    /\ ~pkg.generate_video => ~InTrace("video") /\ ~InTrace("cleanup")
    /\ Precedes("card", "save_card")
    /\ Precedes("save_card", "push")
    /\ \A i \in 1..Len(trace) : trace[i] = "push" => i = Len(trace)
    /\ pc = "done" => trace[Len(trace)] = "push"

C6_Witness ==
    /\ pc = "done"
    /\ pkg.generate_video
    /\ InTrace("save_model") /\ InTrace("evaluate") /\ InTrace("video")
    /\ InTrace("cleanup") /\ InTrace("card") /\ InTrace("push")

\* C7: no stage is retried and nothing is rolled back: once a stage has raised the
\* run is over, no stage runs after it and nothing is pushed; a run that ends
\* well has pushed exactly once; a push that fails leaves the files of the local
\* clone as they were.
C7_AbortNoRetry ==
    /\ [](/\ error.stage # "none" =>
                /\ pc = "failed"
                /\ ~InTrace(error.stage)
                /\ remote.commits = 0
          /\ pc = "failed" => error.stage # "none"
          /\ \A i, j \in 1..Len(trace) : trace[i] = trace[j] => i = j
          /\ remote.commits <= 1
          /\ remote.commits = 1 <=> InTrace("push")
          /\ pc = "done" => remote.commits = 1 /\ error.stage = "none")
    /\ [][/\ pc # "failed" /\ pc # "done"
          /\ (pc = "push" /\ pc' = "failed") =>
                 written' = written /\ readme' = readme]_vars

C7_Witness ==
    /\ pc = "failed"
    /\ error.stage = "push"
    /\ "README.md" \in written
    /\ remote.commits = 0

CloneFiles ==
    {".gitattributes", "model.zip", "vec_normalize.pkl", "model/", "args.yml",
     "config.yml", "env_kwargs.yml", "train_eval_metrics.zip", "results.json",
     "replay.mp4", "README.md"}

\* C9: nothing is written into the local clone before the repository has been
\* created or reused, cloned and pulled; creating a repository that exists
\* already does not fail for that reason and leaves the repository in place.
C9_PullBeforeWrites ==
    /\ written \subseteq CloneFiles
    /\ \A f \in CloneFiles :
           f \in written =>
               /\ InTrace("create_repo") /\ InTrace("clone") /\ InTrace("git_pull")
               /\ cloned /\ remote.exists
    /\ Precedes("create_repo", "clone")
    /\ Precedes("clone", "git_pull")
    /\ error.reason # "exists"
    /\ remote.existed => remote.exists
    /\ InTrace("create_repo") => remote.exists

C9_Witness ==
    /\ remote.existed
    /\ InTrace("git_pull")
    /\ written = {".gitattributes"}
    /\ pc = "save_model"

\* C10: with a VecNormalize wrapper, its statistics are saved to vec_normalize.pkl
\* and training and norm_reward are set to False before the evaluation and the
\* video start, so both run with the two flags False and the saved statistics
\* are those the wrapper had before the evaluation; without a wrapper no
\* vec_normalize.pkl is written.
C10_VecNormalizeFrozen ==
    /\ (vec.present /\ (pc \in {"evaluate", "video"} \/ InTrace("evaluate"))) =>
           /\ ~vec.training
           /\ ~vec.norm_reward
           /\ "vec_normalize.pkl" \in written
           /\ vec_pkl = <<vec.stats>>
    /\ Precedes("vec_normalize", "evaluate")
    /\ Precedes("vec_normalize", "video")
    /\ ~vec.present => "vec_normalize.pkl" \notin written /\ vec_pkl = <<>>

C10_Witness ==
    /\ vec.present
    /\ InTrace("evaluate") /\ InTrace("video")
    /\ vec_pkl = <<MaxStats>>
    /\ ~vec.training /\ ~vec.norm_reward

====
